---------------------------- MODULE Spec2Model ----------------------------
(***************************************************************************)
(* Binlog event decoding of pymysqlreplication/event.py.                   *)
(*                                                                         *)
(* A packet is a sequence of bytes with a cursor (read_bytes).  Every      *)
(* event class of event.py is a constructor that consumes bytes of the     *)
(* packet it is given; it is modelled as an operator that threads the      *)
(* cursor through the reads of the constructor, in the order of the        *)
(* source, and as an action that applies the operator to the packet of     *)
(* the current state.  A Python exception ends the constructor at the      *)
(* statement that raises it: the cursor carries the exception (exc), and   *)
(* every later read of the same constructor leaves the cursor alone.       *)
(***************************************************************************)
EXTENDS Integers, Sequences, FiniteSets, TLC

VARIABLES
    packet,      \* the packet handed to the constructors (from_packet)
    read_bytes,  \* packet.read_bytes: bytes consumed from the packet so far
    log,         \* the reads and skips issued by the last constructor call
    ev,          \* the event built by the last constructor call
    prev,        \* the fixed-size event built before it from this packet
    decodes,     \* number of constructor calls made on this packet
    table_map    \* the table map shared with the caller

vars == <<packet, read_bytes, log, ev, prev, decodes, table_map>>

(***************************************************************************)
(* Bounds of the model.                                                    *)
(***************************************************************************)
MaxEvents == 2      \* constructor calls per packet
MaxQueryLen == 2    \* bytes of query text in a generated QueryEvent body
MaxFieldLen == 1    \* bytes of status vars / of schema in such a body
MaxPre == 1         \* bytes before the dot in a generated rotate trailer
MaxShort == 1       \* bytes a generated flat packet may fall short by
MaxEventSize == 1   \* small declared event sizes tried on every packet
MaxExtra == 1       \* post-header bytes of a generated format description

(***************************************************************************)
(* Bytes, Python values and exceptions.                                    *)
(***************************************************************************)
NUL == 0
NL == 10
DOT == 46

Max(S) == CHOOSE x \in S : \A y \in S : y <= x
Min(S) == CHOOSE x \in S : \A y \in S : x <= y

Fill(n, b) == [i \in 1..n |-> b]

\* data[pos : pos + n] of Python, for 0 <= pos and pos + n <= len(data)
Slice(data, pos, n) == SubSeq(data, pos + 1, pos + n)

None == [type |-> "NoneType", v |-> <<>>]
Str(cp) == [type |-> "str", v |-> cp]
Bytes(b) == [type |-> "bytes", v |-> b]
\* An unsigned integer unpacked from little-endian bytes ('<Q', '<H',
\* read_uint32, ...), held as the bytes it was unpacked from, lowest first:
\* unpacking is one-to-one and 64 bits exceed TLC integers.  The
\* two lengths the decoders compute with are converted by UInt.
IntLE(b) == [type |-> "int", v |-> b]
Bool(b) == [type |-> "bool", v |-> <<b>>]

\* The classes an exception is an instance of (Python's built-in hierarchy).
ExcClasses(e) ==
    CASE e = "UnicodeDecodeError" ->
             {"UnicodeDecodeError", "UnicodeError", "ValueError", "Exception"}
      [] e = "IndexError" -> {"IndexError", "LookupError", "Exception"}
      [] e = "LookupError" -> {"LookupError", "Exception"}
      [] e = "TypeError" -> {"TypeError", "Exception"}
      [] OTHER -> {e, "Exception"}

\* except (classes): does the clause catch exception e
Catches(classes, e) == ExcClasses(e) \cap classes # {}


(***************************************************************************)
(* bytes.decode(encoding).  The result is [exc, v]: the exception raised   *)
(* ("none" when the call returns) and the code points of the text.  The    *)
(* UTF-8 decoder covers one- and two-byte sequences; the bytes of the      *)
(* model are below 0xE0 or above 0xF7, where that is the whole of UTF-8:   *)
(* a lead byte 0xC2..0xDF is followed by one continuation byte             *)
(* 0x80..0xBF, a continuation byte follows a lead byte, a byte below 0x80  *)
(* stands alone, and no other byte occurs.                                 *)
(***************************************************************************)
IsAscii(x) == x < 128
IsCont(x) == x \in 128..191
IsLead(x) == x \in 194..223

Utf8(b) ==
    LET n == Len(b)
        valid ==
            \A i \in 1..n :
                \/ IsAscii(b[i])
                \/ IsLead(b[i]) /\ i < n /\ IsCont(b[i + 1])
                \/ IsCont(b[i]) /\ i > 1 /\ IsLead(b[i - 1])
        IsStart(i) == ~IsCont(b[i])
        starts == SelectSeq([i \in 1..n |-> i], IsStart)
        cp(i) == IF IsAscii(b[i]) THEN b[i]
                 ELSE (b[i] - 192) * 64 + (b[i + 1] - 128)
    IN  IF valid
        THEN [exc |-> "none", v |-> [k \in 1..Len(starts) |-> cp(starts[k])]]
        ELSE [exc |-> "UnicodeDecodeError", v |-> <<>>]

\* The codecs Python's registry knows, of those the model names.
CodecRegistry == {"utf-8", "ascii", "ISO-8859-1"}

\* What chardet.detect(query)['encoding'] may be: None, a codec that decodes
\* every byte, a codec that rejects bytes above 127, a name Python has no
\* codec for.
DetectorOutcomes == {"None", "ISO-8859-1", "ascii", "EUC-TW"}

PyDecode(b, encoding) ==
    IF encoding = "None" THEN [exc |-> "TypeError", v |-> <<>>]
    ELSE IF encoding \notin CodecRegistry THEN [exc |-> "LookupError", v |-> <<>>]
    ELSE IF encoding = "utf-8" THEN Utf8(b)
    ELSE IF encoding = "ascii" THEN
        IF \E i \in 1..Len(b) : b[i] >= 128
        THEN [exc |-> "UnicodeDecodeError", v |-> <<>>]
        ELSE [exc |-> "none", v |-> b]
    ELSE [exc |-> "none", v |-> b]

\* bytes.rstrip(b'\x00')
rstrip(b) == SubSeq(b, 1, Max({0} \cup {i \in 1..Len(b) : b[i] # NUL}))

(***************************************************************************)
(* QueryEvent._decode_query.  detected is chardet.detect(query)            *)
(* ['encoding'].  The result is [exc, value]: the exception that leaves    *)
(* the method ("none" when it returns) and the value returned.             *)
(***************************************************************************)
_decode_query(query, detected) ==
    IF query = <<>> THEN [exc |-> "none", value |-> Bytes(query)]
    ELSE
        LET u == PyDecode(query, "utf-8")
        IN  IF u.exc = "none" THEN [exc |-> "none", value |-> Str(u.v)]
            ELSE IF ~Catches({"UnicodeError"}, u.exc)
                 THEN [exc |-> u.exc, value |-> None]
            ELSE
                LET d == PyDecode(query, detected)
                IN  IF d.exc = "none" THEN [exc |-> "none", value |-> Str(d.v)]
                    ELSE IF Catches({"TypeError", "UnicodeError"}, d.exc)
                         THEN [exc |-> "none", value |-> Bytes(query)]
                    ELSE [exc |-> d.exc, value |-> None]

(***************************************************************************)
(* re.findall(b'.+\.\d{6}', s)[0]: the first match of one or more bytes    *)
(* other than a newline, a dot and six digits.  The scan takes the         *)
(* leftmost start that has a match, and `.+` is greedy: of the matches     *)
(* from that start, the longest.                                           *)
(***************************************************************************)
DigitRun == 6

IsDigit(b) == b \in 48..57

\* the indices of the dots that six digits follow
Dots(s) ==
    {j \in 2..(Len(s) - DigitRun) :
        s[j] = DOT /\ \A k \in 1..DigitRun : IsDigit(s[j + k])}

\* of those, the dots that end a match started at index i
MatchDots(s, i) == {j \in Dots(s) : j > i /\ \A k \in i..(j - 1) : s[k] # NL}

re_findall_first(s) ==
    LET starts == {i \in 1..Len(s) : MatchDots(s, i) # {}}
    IN  IF Dots(s) = {} \/ starts = {} THEN [exc |-> "IndexError", v |-> <<>>]
        ELSE LET i == Min(starts)
                 j == Max(MatchDots(s, i))
             IN  [exc |-> "none", v |-> SubSeq(s, i, j + DigitRun)]

(***************************************************************************)
(* The packet cursor (packet.read, packet.read_uintN, packet.advance).     *)
(* A cursor value is [read_bytes, exc, log, strict]; from_packet is the    *)
(* packet.  read(n) fails when fewer than n bytes remain.  A read of a     *)
(* negative length is outside the cursor's contract: a strict cursor       *)
(* fails, a lax one returns no bytes and moves its position by n           *)
(* (Python's slice).                                                       *)
(***************************************************************************)
Issue(c, op, n) == Append(c.log, [op |-> op, at |-> c.read_bytes, n |-> n])

read(from_packet, c, n) ==
    IF c.exc # "none" THEN c
    ELSE IF n < 0 THEN
        IF c.strict
        THEN [c EXCEPT !.exc = "CursorError", !.log = Issue(c, "read", n)]
        ELSE [c EXCEPT !.read_bytes = @ + n, !.log = Issue(c, "read", n)]
    ELSE IF c.read_bytes < 0 \/ c.read_bytes + n > Len(from_packet.data)
        THEN [c EXCEPT !.exc = "TruncatedPacket", !.log = Issue(c, "read", n)]
    ELSE [c EXCEPT !.read_bytes = @ + n, !.log = Issue(c, "read", n)]

advance(from_packet, c, n) ==
    IF c.exc # "none" THEN c
    ELSE [c EXCEPT !.read_bytes = @ + n, !.log = Issue(c, "advance", n)]

\* the bytes a read of n bytes at cursor c returns
Got(from_packet, c, n) ==
    IF c.exc = "none" /\ n >= 0 /\ c.read_bytes >= 0
       /\ c.read_bytes + n <= Len(from_packet.data)
    THEN Slice(from_packet.data, c.read_bytes, n)
    ELSE <<>>

\* a statement that raises e unless an earlier one already raised
Raise(c, e) == IF c.exc = "none" /\ e # "none" THEN [c EXCEPT !.exc = e] ELSE c

\* the value of an unsigned little-endian integer of one or two bytes
UInt(b) ==
    IF Len(b) = 0 THEN 0
    ELSE IF Len(b) = 1 THEN b[1]
    ELSE b[1] + 256 * b[2]

\* struct.unpack('b', byte): a signed byte
SignedByte(b) == IF b[1] >= 128 THEN b[1] - 256 ELSE b[1]

(***************************************************************************)
(* BinLogEvent.__init__: the envelope.  kwargs holds the filter            *)
(* configuration; only fail_on_table_metadata_unavailable is stored.       *)
(***************************************************************************)
DefaultKwargs ==
    [only_tables |-> "None", ignored_tables |-> "None",
     only_schemas |-> "None", ignored_schemas |-> "None",
     freeze_schema |-> FALSE, fail_on_table_metadata_unavailable |-> FALSE]

\* variant: an envelope whose _processed flag follows the only_tables filter
BinLogEvent_filtering(from_packet, event_size, tm, ctl_connection, kwargs) ==
    [table_map |-> tm,
     event_type |-> from_packet.event_type,
     timestamp |-> from_packet.timestamp,
     event_size |-> event_size,
     _ctl_connection |-> ctl_connection,
     _fail_on_table_metadata_unavailable |->
         kwargs.fail_on_table_metadata_unavailable,
     _processed |-> kwargs.only_tables = "None",
     complete |-> TRUE]

BinLogEvent(from_packet, event_size, tm, ctl_connection, kwargs) ==
    [table_map |-> tm,
     event_type |-> from_packet.event_type,
     timestamp |-> from_packet.timestamp,
     event_size |-> event_size,
     _ctl_connection |-> ctl_connection,
     _fail_on_table_metadata_unavailable |->
         kwargs.fail_on_table_metadata_unavailable,
     _processed |-> TRUE,
     complete |-> TRUE]

\* an event class with no slots of its own
NoSlots == [s \in {} |-> None]

\* What a constructor call leaves: the cursor, the envelope, the slots of
\* the subclass.  When c.exc is not "none" the call raised and no event
\* object exists.
Built(c, env, slots) ==
    [c |-> c, env |-> env, slots |-> IF c.exc = "none" THEN slots ELSE NoSlots]


(***************************************************************************)
(* The event classes.  Each operator is the __init__ of its class:         *)
(* c is the cursor on entry, the result is Built(cursor on exit, ...).     *)
(***************************************************************************)
GtidEvent(from_packet, c, event_size, tm, ctl_connection, kwargs) ==
    LET env == BinLogEvent(from_packet, event_size, tm, ctl_connection, kwargs)
        c1 == read(from_packet, c, 1)
        c2 == read(from_packet, c1, 16)
        c3 == read(from_packet, c2, 8)
    IN  Built(c3, env,
              [commit_flag |-> Bool(Got(from_packet, c, 1)[1] = 1),
               sid |-> Bytes(Got(from_packet, c1, 16)),
               gno |-> IntLE(Got(from_packet, c2, 8))])

\* event_size - 8: the bytes of the event after the position
\* variant: the trailer taken as the whole declared size
RotateRest_whole(event_size) == event_size

RotateRest(event_size) == event_size - 8

RotateEvent(from_packet, c, event_size, tm, ctl_connection, kwargs) ==
    LET env == BinLogEvent(from_packet, event_size, tm, ctl_connection, kwargs)
        c1 == read(from_packet, c, 8)
        c2 == read(from_packet, c1, RotateRest(event_size))
        rest_of_event_data == Got(from_packet, c1, RotateRest(event_size))
        m == re_findall_first(rest_of_event_data)
        name == PyDecode(m.v, "utf-8")
        c3 == IF m.exc = "none" THEN Raise(c2, name.exc)
              ELSE IF Catches({"IndexError"}, m.exc) THEN c2
              ELSE Raise(c2, m.exc)
    IN  Built(c3, env,
              [position |-> IntLE(Got(from_packet, c, 8)),
               next_binlog |-> IF m.exc = "none" THEN Str(name.v) ELSE None])

\* utils.is_checksum_supported(server_version): the versions that carry a
\* checksum, of the two the format description bodies of the model name
V_5_0_96 == <<53, 46, 48, 46, 57, 54>>
V_5_6_24_log == <<53, 46, 54, 46, 50, 52, 45, 108, 111, 103>>
is_checksum_supported(server_version) == server_version = V_5_6_24_log

\* the bytes skipped between server_version and the checksum algorithm
\* variant: a skip that stops one byte early
ChecksumSkip_short(packet_event_size) == ((packet_event_size - 19) - 2 - 50) - 6

ChecksumSkip(packet_event_size) == ((packet_event_size - 19) - 2 - 50) - 5

FormatDescriptionEvent(from_packet, c, event_size, tm, ctl_connection, kwargs) ==
    LET env == BinLogEvent(from_packet, event_size, tm, ctl_connection, kwargs)
        c1 == read(from_packet, c, 2)
        c2 == read(from_packet, c1, 50)
        version == PyDecode(rstrip(Got(from_packet, c1, 50)), "utf-8")
        c3 == Raise(c2, version.exc)
        supported == c3.exc = "none" /\ is_checksum_supported(version.v)
        c4 == IF supported
              THEN read(from_packet, c3, ChecksumSkip(from_packet.event_size))
              ELSE c3
        c5 == IF supported THEN read(from_packet, c4, 1) ELSE c4
    IN  Built(c5, env,
              [binlog_version |-> IntLE(Got(from_packet, c, 2)),
               server_version |-> Str(version.v),
               has_checksum |->
                   Bool(supported /\ SignedByte(Got(from_packet, c4, 1)) = 1)])

StopEvent(from_packet, c, event_size, tm, ctl_connection, kwargs) ==
    Built(c, BinLogEvent(from_packet, event_size, tm, ctl_connection, kwargs),
          NoSlots)

\* variant: a transaction id of four bytes
XidEvent_uint32(from_packet, c, event_size, tm, ctl_connection, kwargs) ==
    Built(read(from_packet, c, 4),
          BinLogEvent(from_packet, event_size, tm, ctl_connection, kwargs),
          [xid |-> IntLE(Got(from_packet, c, 4))])

XidEvent(from_packet, c, event_size, tm, ctl_connection, kwargs) ==
    LET env == BinLogEvent(from_packet, event_size, tm, ctl_connection, kwargs)
        c1 == read(from_packet, c, 8)
    IN  Built(c1, env, [xid |-> IntLE(Got(from_packet, c, 8))])

HeartbeatLogEvent(from_packet, c, event_size, tm, ctl_connection, kwargs) ==
    LET env == BinLogEvent(from_packet, event_size, tm, ctl_connection, kwargs)
        c1 == read(from_packet, c, event_size)
        ident == PyDecode(Got(from_packet, c, event_size), "utf-8")
        c2 == Raise(c1, ident.exc)
    IN  Built(c2, env, [ident |-> Str(ident.v)])

\* the length of the query text: what is left of the event after the
\* post-header, the status vars, the schema and the separator
\* variant: the query length with the skipped byte taken off twice
QueryLen_skiptwice(event_size, status_vars_length, schema_length) ==
    event_size - 13 - status_vars_length - schema_length - 2

QueryLen(event_size, status_vars_length, schema_length) ==
    event_size - 13 - status_vars_length - schema_length - 1

QueryEvent(from_packet, c, event_size, tm, ctl_connection, kwargs, detected) ==
    LET env == BinLogEvent(from_packet, event_size, tm, ctl_connection, kwargs)
        c1 == read(from_packet, c, 4)
        c2 == read(from_packet, c1, 4)
        c3 == read(from_packet, c2, 1)
        c4 == read(from_packet, c3, 2)
        c5 == read(from_packet, c4, 2)
        schema_length == UInt(Got(from_packet, c2, 1))
        status_vars_length == UInt(Got(from_packet, c4, 2))
        c6 == read(from_packet, c5, status_vars_length)
        c7 == read(from_packet, c6, schema_length)
        c8 == advance(from_packet, c7, 1)
        n == QueryLen(event_size, status_vars_length, schema_length)
        c9 == read(from_packet, c8, n)
        q == _decode_query(Got(from_packet, c8, n), detected)
        c10 == Raise(c9, q.exc)
    IN  Built(c10, env,
              [slave_proxy_id |-> IntLE(Got(from_packet, c, 4)),
               execution_time |-> IntLE(Got(from_packet, c1, 4)),
               schema_length |-> IntLE(Got(from_packet, c2, 1)),
               error_code |-> IntLE(Got(from_packet, c3, 2)),
               status_vars_length |-> IntLE(Got(from_packet, c4, 2)),
               status_vars |-> Bytes(Got(from_packet, c5, status_vars_length)),
               schema |-> Bytes(Got(from_packet, c6, schema_length)),
               query |-> q.value])

BeginLoadQueryEvent(from_packet, c, event_size, tm, ctl_connection, kwargs) ==
    LET env == BinLogEvent(from_packet, event_size, tm, ctl_connection, kwargs)
        c1 == read(from_packet, c, 4)
        c2 == read(from_packet, c1, event_size - 4)
    IN  Built(c2, env,
              [file_id |-> IntLE(Got(from_packet, c, 4)),
               block_data |-> Bytes(Got(from_packet, c1, event_size - 4))])

ExecuteLoadQueryEvent(from_packet, c, event_size, tm, ctl_connection, kwargs) ==
    LET env == BinLogEvent(from_packet, event_size, tm, ctl_connection, kwargs)
        c1 == read(from_packet, c, 4)
        c2 == read(from_packet, c1, 4)
        c3 == read(from_packet, c2, 1)
        c4 == read(from_packet, c3, 2)
        c5 == read(from_packet, c4, 2)
        c6 == read(from_packet, c5, 4)
        c7 == read(from_packet, c6, 4)
        c8 == read(from_packet, c7, 4)
        c9 == read(from_packet, c8, 1)
    IN  Built(c9, env,
              [slave_proxy_id |-> IntLE(Got(from_packet, c, 4)),
               execution_time |-> IntLE(Got(from_packet, c1, 4)),
               schema_length |-> IntLE(Got(from_packet, c2, 1)),
               error_code |-> IntLE(Got(from_packet, c3, 2)),
               status_vars_length |-> IntLE(Got(from_packet, c4, 2)),
               file_id |-> IntLE(Got(from_packet, c5, 4)),
               start_pos |-> IntLE(Got(from_packet, c6, 4)),
               end_pos |-> IntLE(Got(from_packet, c7, 4)),
               dup_handling_flags |-> IntLE(Got(from_packet, c8, 1))])

IntvarEvent(from_packet, c, event_size, tm, ctl_connection, kwargs) ==
    LET env == BinLogEvent(from_packet, event_size, tm, ctl_connection, kwargs)
        c1 == read(from_packet, c, 1)
        c2 == read(from_packet, c1, 4)
    IN  Built(c2, env,
              [type |-> IntLE(Got(from_packet, c, 1)),
               value |-> IntLE(Got(from_packet, c1, 4))])

\* variant: an unhandled event that leaves the cursor where it is
NotImplementedEvent_noadvance(from_packet, c, event_size, tm, ctl_connection, kwargs) ==
    Built(c, BinLogEvent(from_packet, event_size, tm, ctl_connection, kwargs),
          NoSlots)

NotImplementedEvent(from_packet, c, event_size, tm, ctl_connection, kwargs) ==
    LET env == BinLogEvent(from_packet, event_size, tm, ctl_connection, kwargs)
        c1 == advance(from_packet, c, event_size)
    IN  Built(c1, env, NoSlots)


(***************************************************************************)
(* The dispatcher: the constructor of each event kind.                     *)
(***************************************************************************)
Kinds ==
    {"GtidEvent", "RotateEvent", "FormatDescriptionEvent", "StopEvent",
     "XidEvent", "HeartbeatLogEvent", "QueryEvent", "BeginLoadQueryEvent",
     "ExecuteLoadQueryEvent", "IntvarEvent", "NotImplementedEvent"}

Construct(kind, from_packet, c, event_size, tm, ctl_connection, kwargs, detected) ==
    CASE kind = "GtidEvent" ->
             GtidEvent(from_packet, c, event_size, tm, ctl_connection, kwargs)
      [] kind = "RotateEvent" ->
             RotateEvent(from_packet, c, event_size, tm, ctl_connection, kwargs)
      [] kind = "FormatDescriptionEvent" ->
             FormatDescriptionEvent(from_packet, c, event_size, tm,
                                    ctl_connection, kwargs)
      [] kind = "StopEvent" ->
             StopEvent(from_packet, c, event_size, tm, ctl_connection, kwargs)
      [] kind = "XidEvent" ->
             XidEvent(from_packet, c, event_size, tm, ctl_connection, kwargs)
      [] kind = "HeartbeatLogEvent" ->
             HeartbeatLogEvent(from_packet, c, event_size, tm, ctl_connection,
                               kwargs)
      [] kind = "QueryEvent" ->
             QueryEvent(from_packet, c, event_size, tm, ctl_connection, kwargs,
                        detected)
      [] kind = "BeginLoadQueryEvent" ->
             BeginLoadQueryEvent(from_packet, c, event_size, tm, ctl_connection,
                                 kwargs)
      [] kind = "ExecuteLoadQueryEvent" ->
             ExecuteLoadQueryEvent(from_packet, c, event_size, tm,
                                   ctl_connection, kwargs)
      [] kind = "IntvarEvent" ->
             IntvarEvent(from_packet, c, event_size, tm, ctl_connection, kwargs)
      [] OTHER ->
             NotImplementedEvent(from_packet, c, event_size, tm, ctl_connection,
                                 kwargs)

(***************************************************************************)
(* The inputs of the model: packets, declared sizes, configurations.       *)
(***************************************************************************)
\* the bytes the fixed-layout constructors read
GtidSize == 25
XidSize == 8
IntvarSize == 5
ExecuteLoadQuerySize == 26
QueryPostHeader == 13
HeaderLength == 19

RECURSIVE SeqsUpTo(_, _)
SeqsUpTo(A, n) ==
    IF n = 0 THEN {<<>>}
    ELSE LET S == SeqsUpTo(A, n - 1)
         IN  S \cup {Append(t, a) : t \in {u \in S : Len(u) = n - 1}, a \in A}

Packet(data, event_type) ==
    [data |-> data, event_size |-> HeaderLength + Len(data),
     event_type |-> event_type, timestamp |-> Len(data) % 2]

\* bodies of i % m, of the lengths of one or two fixed-layout events, some
\* bytes short
FixedSizes == {0, IntvarSize, XidSize, GtidSize}
FlatLens ==
    {n \in {a + b - t : a \in FixedSizes, b \in FixedSizes, t \in 0..MaxShort} :
        n >= 0}
FlatPackets ==
    {Packet([i \in 1..n |-> (i - 1) % m], "UNKNOWN_EVENT") :
        n \in FlatLens, m \in 1..2}

\* bodies laid out as a QueryEvent: the text is "A", 0xC3, 0xA9 in any order
QueryTexts == SeqsUpTo({65, 195, 169}, MaxQueryLen)
QueryPackets ==
    {Packet(Fill(8, 0) \o <<sl>> \o <<0, 0>> \o <<svl, 0>> \o Fill(svl, 1)
            \o Fill(sl, 100) \o <<NUL>> \o text, "QUERY_EVENT") :
        sl \in 0..MaxFieldLen, svl \in 0..MaxFieldLen, text \in QueryTexts}

\* bodies laid out as a RotateEvent: a position and a trailer of bytes
\* ("A", newline, 0xFF), a dot, five or six digits, padding
MysqlBin ==
    <<109, 121, 115, 113, 108, 45, 98, 105, 110, 46, 48, 48, 48, 48, 48, 50>>
RotateTrailers ==
    {pre \o <<DOT>> \o Fill(k, 48) \o suf :
        pre \in SeqsUpTo({65, NL, 255}, MaxPre),
        k \in (DigitRun - 1)..DigitRun,
        suf \in {<<>>, <<NUL, NUL>>}}
    \cup {MysqlBin \o <<NUL, NUL>>}
RotatePackets ==
    {Packet(<<4>> \o Fill(7, 0) \o t, "ROTATE_EVENT") : t \in RotateTrailers}

\* bodies laid out as a FormatDescriptionEvent: binlog version 4, the
\* server version padded to 50 bytes, post-header bytes, the checksum
\* algorithm, the checksum
FormatPackets ==
    {Packet(<<4, 0>> \o v \o Fill(50 - Len(v), NUL) \o Fill(5 + x, f)
            \o <<a>> \o Fill(4, f), "FORMAT_DESCRIPTION_EVENT") :
        v \in {V_5_0_96, V_5_6_24_log}, x \in 0..MaxExtra, f \in {0, 1},
        a \in {0, 1, 255}}

Packets == FlatPackets \cup QueryPackets \cup RotatePackets \cup FormatPackets

\* the declared sizes tried at cursor position pos: the small ones, and the
\* bytes the packet still holds
EventSizes(pos) ==
    (1..MaxEventSize) \cup {n \in {Len(packet.data) - pos} : n >= 0}

Kwargs ==
    {DefaultKwargs,
     [DefaultKwargs EXCEPT !.only_tables = "t1", !.ignored_tables = "t2",
                           !.only_schemas = "s1", !.ignored_schemas = "s2",
                           !.freeze_schema = TRUE],
     [DefaultKwargs EXCEPT !.fail_on_table_metadata_unavailable = TRUE]}

\* the table map of the caller: table id 1 is mapped
TheTableMap == <<"t1">>

(***************************************************************************)
(* The state machine.                                                      *)
(***************************************************************************)
NoEvent ==
    [kind |-> "none", start |-> 0, exc |-> "none",
     env |-> BinLogEvent(Packet(<<>>, "UNKNOWN_EVENT"), 0, TheTableMap, "ctl",
                         DefaultKwargs),
     slots |-> NoSlots,
     args |-> [kwargs |-> DefaultKwargs, strict |-> TRUE, detected |-> "None"]]

NoPrev == [kind |-> "none", raw |-> <<>>, slots |-> NoSlots]

FixedKinds == {"GtidEvent", "XidEvent", "IntvarEvent"}

\* the bytes of the packet the last constructor call consumed
Raw == IF read_bytes >= ev.start
       THEN Slice(packet.data, ev.start, read_bytes - ev.start) ELSE <<>>

Init ==
    /\ packet \in Packets
    /\ read_bytes = 0
    /\ log = <<>>
    /\ ev = NoEvent
    /\ prev = NoPrev
    /\ decodes = 0
    /\ table_map = TheTableMap

\* one constructor call on the packet of the state, from where the cursor is
Decode(kind, event_size, kwargs, strict, detected) ==
    /\ decodes < MaxEvents
    /\ \E r \in {Construct(kind, packet,
                            [read_bytes |-> read_bytes, exc |-> "none",
                             log |-> <<>>, strict |-> strict],
                            event_size, table_map, "ctl", kwargs, detected)} :
        /\ read_bytes' = r.c.read_bytes
        /\ log' = r.c.log
        /\ ev' = [kind |-> kind, start |-> read_bytes, exc |-> r.c.exc,
                  env |-> r.env, slots |-> r.slots,
                  args |-> [kwargs |-> kwargs, strict |-> strict,
                            detected |-> detected]]
        /\ prev' = IF ev.kind \in FixedKinds /\ ev.exc = "none"
                   THEN [kind |-> ev.kind, raw |-> Raw, slots |-> ev.slots]
                   ELSE NoPrev
        /\ decodes' = decodes + 1
        /\ UNCHANGED <<packet, table_map>>

DecodeGtid ==
    \E es \in EventSizes(read_bytes), kw \in Kwargs :
        Decode("GtidEvent", es, kw, TRUE, "None")

DecodeRotate ==
    \E es \in EventSizes(read_bytes), kw \in Kwargs, strict \in BOOLEAN :
        Decode("RotateEvent", es, kw, strict, "None")

DecodeFormatDescription ==
    \E es \in EventSizes(read_bytes), kw \in Kwargs, strict \in BOOLEAN :
        Decode("FormatDescriptionEvent", es, kw, strict, "None")

DecodeStop ==
    \E es \in EventSizes(read_bytes), kw \in Kwargs :
        Decode("StopEvent", es, kw, TRUE, "None")

DecodeXid ==
    \E es \in EventSizes(read_bytes), kw \in Kwargs :
        Decode("XidEvent", es, kw, TRUE, "None")

DecodeHeartbeat ==
    \E es \in EventSizes(read_bytes), kw \in Kwargs :
        Decode("HeartbeatLogEvent", es, kw, TRUE, "None")

DecodeQuery ==
    \E es \in EventSizes(read_bytes), kw \in Kwargs, strict \in BOOLEAN,
       detected \in DetectorOutcomes :
        Decode("QueryEvent", es, kw, strict, detected)

DecodeBeginLoadQuery ==
    \E es \in EventSizes(read_bytes), kw \in Kwargs, strict \in BOOLEAN :
        Decode("BeginLoadQueryEvent", es, kw, strict, "None")

DecodeExecuteLoadQuery ==
    \E es \in EventSizes(read_bytes), kw \in Kwargs :
        Decode("ExecuteLoadQueryEvent", es, kw, TRUE, "None")

DecodeIntvar ==
    \E es \in EventSizes(read_bytes), kw \in Kwargs :
        Decode("IntvarEvent", es, kw, TRUE, "None")

DecodeNotImplemented ==
    \E es \in EventSizes(read_bytes), kw \in Kwargs :
        Decode("NotImplementedEvent", es, kw, TRUE, "None")

Next ==
    \/ DecodeGtid
    \/ DecodeRotate
    \/ DecodeFormatDescription
    \/ DecodeStop
    \/ DecodeXid
    \/ DecodeHeartbeat
    \/ DecodeQuery
    \/ DecodeBeginLoadQuery
    \/ DecodeExecuteLoadQuery
    \/ DecodeIntvar
    \/ DecodeNotImplemented

Spec == Init /\ [][Next]_vars


(***************************************************************************)
(* Vocabulary of the properties.                                           *)
(***************************************************************************)
Decoded == ev.kind # "none"
Completed == Decoded /\ ev.exc = "none"
\* the cursor refused a read: the constructor did not get its bytes
CursorFailed == ev.exc \in {"TruncatedPacket", "CursorError"}
Consumed == read_bytes - ev.start
NoNegativeRead == \A i \in 1..Len(log) : log[i].n >= 0

\* the byte at offset off of the packet
ByteAt(off) == packet.data[off + 1]

\* the two lengths of a QueryEvent post-header that starts at the event's
\* first byte, taken from the packet
HasPostHeader == ev.start + QueryPostHeader <= Len(packet.data)
PacketSchemaLength == ByteAt(ev.start + 8)
PacketStatusVarsLength == ByteAt(ev.start + 11) + 256 * ByteAt(ev.start + 12)

(***************************************************************************)
(* C1.  Stream alignment, as claimed: after every decode that completes,   *)
(* the bytes consumed from the packet cursor equal the declared            *)
(* event_size of the event, whatever its kind.                             *)
(***************************************************************************)
C1_ConsumesDeclaredSize == Completed => Consumed = ev.env.event_size

\* bytes a completed decode consumes, by kind
ConsumedByLayout ==
    CASE ev.kind = "GtidEvent" -> GtidSize
      [] ev.kind = "XidEvent" -> XidSize
      [] ev.kind = "IntvarEvent" -> IntvarSize
      [] ev.kind = "ExecuteLoadQueryEvent" -> ExecuteLoadQuerySize
      [] ev.kind = "StopEvent" -> 0
      [] ev.kind = "FormatDescriptionEvent" ->
             IF is_checksum_supported(ev.slots.server_version.v)
             THEN packet.event_size - HeaderLength - 4
             ELSE 52
      [] OTHER -> ev.env.event_size

(***************************************************************************)
(* C1, amended.  After every decode that completes, Rotate, Heartbeat,     *)
(* Query, BeginLoadQuery and NotImplemented events have consumed exactly the declared event_size;    *)
(* Gtid, Xid, Intvar, ExecuteLoadQuery and Stop events have consumed       *)
(* their fixed layout (25, 8, 5, 26, 0 bytes) whatever size is declared;   *)
(* a FormatDescription event has consumed 52 bytes, or, when the server    *)
(* version supports checksums, the packet's event size less the 19-byte    *)
(* header and the 4 checksum bytes.                                        *)
(***************************************************************************)
C1_ConsumesLayout == Completed => Consumed = ConsumedByLayout

\* a second event on the packet, of fixed layout, that completes although
\* its declared size is not the size of its layout
C1_Witness ==
    /\ decodes = 2
    /\ Completed
    /\ ev.start > 0
    /\ ev.kind = "ExecuteLoadQueryEvent"
    /\ ev.env.event_size > ExecuteLoadQuerySize
    /\ Consumed = ExecuteLoadQuerySize

(***************************************************************************)
(* C2.  Malformed QueryEvent: when the packet holds the post-header, the   *)
(* status vars and the schema, and status_vars_length + schema_length +    *)
(* 14 > event_size, the decode raises ArithmeticUnderflow and issues no    *)
(* read of negative length.                                                *)
(***************************************************************************)
C2_MalformedQueryRaises ==
    /\ ev.kind = "QueryEvent"
    /\ HasPostHeader
    /\ ev.start + QueryPostHeader + PacketStatusVarsLength
           + PacketSchemaLength <= Len(packet.data)
    /\ PacketStatusVarsLength + PacketSchemaLength + 14 > ev.env.event_size
    => ev.exc = "ArithmeticUnderflow" /\ NoNegativeRead

\* the bytes the last read of the log returned
LastRead ==
    LET e == log[Len(log)]
    IN  IF e.n >= 0 THEN Slice(packet.data, e.at, e.n) ELSE <<>>

(***************************************************************************)
(* C3.  Query text decoding never raises: once the cursor has delivered    *)
(* the query bytes, the decode completes whatever the detector answers,    *)
(* and the query slot holds the UTF-8 text of the bytes when they are      *)
(* valid UTF-8, else their text in the detected encoding, else the bytes   *)
(* themselves.                                                             *)
(***************************************************************************)
C3_QueryTextNeverRaises ==
    ev.kind = "QueryEvent" /\ ~CursorFailed =>
        /\ ev.exc = "none"
        /\ LET u == Utf8(LastRead)
               d == PyDecode(LastRead, ev.args.detected)
           IN  IF u.exc = "none" THEN ev.slots.query.v = u.v
               ELSE IF d.exc = "none" THEN ev.slots.query = Str(d.v)
               ELSE ev.slots.query = Bytes(LastRead)

(***************************************************************************)
(* C4.  Error propagation: once a decode has aborted on a short read, no   *)
(* further event is decoded from the same packet: no later constructor     *)
(* call on it completes.                                                   *)
(***************************************************************************)
C4_NoDecodeAfterAbort ==
    [][ev.exc = "TruncatedPacket" =>
           ~(decodes' = decodes + 1 /\ ev'.exc = "none")]_vars

(***************************************************************************)
(* C5.  Checksum detection: a FormatDescriptionEvent that completes has    *)
(* has_checksum exactly when the server version supports checksums and     *)
(* the signed byte at (packet event size - 19 - 5) bytes into the event    *)
(* is 1; when the version does not support checksums, has_checksum is      *)
(* false and the only reads are those of binlog_version and                *)
(* server_version.                                                         *)
(***************************************************************************)
AlgorithmOffset == ev.start + packet.event_size - HeaderLength - 5

C5_ChecksumDetection ==
    ev.kind = "FormatDescriptionEvent" /\ Completed =>
        LET supported == is_checksum_supported(ev.slots.server_version.v)
        IN  /\ ev.slots.has_checksum.v[1] =
                   (/\ supported
                    /\ AlgorithmOffset \in 0..(Len(packet.data) - 1)
                    /\ SignedByte(<<ByteAt(AlgorithmOffset)>>) = 1)
            /\ ~supported =>
                   log = <<[op |-> "read", at |-> ev.start, n |-> 2],
                           [op |-> "read", at |-> ev.start + 2, n |-> 50]>>

\* a checksum is found from the algorithm byte alone: the bytes before and
\* after it are 0
C5_Witness ==
    /\ ev.kind = "FormatDescriptionEvent"
    /\ Completed
    /\ ev.slots.has_checksum.v[1]
    /\ ByteAt(AlgorithmOffset - 1) = 0
    /\ ByteAt(AlgorithmOffset + 1) = 0

(***************************************************************************)
(* C6.  Unhandled event: a NotImplementedEvent of declared size N always   *)
(* completes, has advanced the cursor by exactly N bytes in one skip, and  *)
(* has no slots beyond the envelope.                                       *)
(***************************************************************************)
C6_UnhandledSkipsDeclaredSize ==
    ev.kind = "NotImplementedEvent" =>
        /\ ev.exc = "none"
        /\ Consumed = ev.env.event_size
        /\ log = <<[op |-> "advance", at |-> ev.start, n |-> ev.env.event_size]>>
        /\ DOMAIN ev.slots = {}

\* an unhandled event of positive size skipped after another event
C6_Witness ==
    /\ ev.kind = "NotImplementedEvent"
    /\ ev.start > 0
    /\ ev.env.event_size > 0
    /\ read_bytes = ev.start + ev.env.event_size

(***************************************************************************)
(* C7.  RotateEvent file name: when the trailer of event_size - 8 bytes    *)
(* was read, the decode completes; next_binlog is None exactly when the    *)
(* trailer has no run of one or more bytes, a dot and six digits, and the  *)
(* trailer mysql-bin.000002 with NUL padding gives "mysql-bin.000002".     *)
(***************************************************************************)
Trailer == Slice(packet.data, ev.start + 8, ev.env.event_size - 8)

HasNamePattern(t) ==
    \E j \in 2..(Len(t) - DigitRun) :
        /\ t[j - 1] # NL
        /\ t[j] = DOT
        /\ \A k \in 1..DigitRun : t[j + k] \in 48..57

C7_RotateNeverRaises ==
    /\ ev.kind = "RotateEvent"
    /\ ev.env.event_size >= 8
    /\ ~CursorFailed
    => /\ ev.exc = "none"
       /\ (ev.slots.next_binlog = None) = ~HasNamePattern(Trailer)
       /\ Trailer = MysqlBin \o <<NUL, NUL>> =>
              ev.slots.next_binlog = Str(MysqlBin)

(***************************************************************************)
(* C8.  Filter configuration is not interpreted: the table map is never    *)
(* mutated, every event built has _processed and complete true, and every  *)
(* constructor call ends as the same call with the default configuration   *)
(* ends: same exception or none, same reads, same bytes consumed, same     *)
(* slots.                                                                  *)
(***************************************************************************)
C8_FiltersNotInterpreted ==
    /\ table_map = TheTableMap
    /\ Decoded =>
           /\ ev.env.table_map = table_map
           /\ ev.env._processed
           /\ ev.env.complete
           /\ LET r == Construct(ev.kind, packet,
                                  [read_bytes |-> ev.start, exc |-> "none",
                                   log |-> <<>>, strict |-> ev.args.strict],
                                  ev.env.event_size, table_map, "ctl",
                                  DefaultKwargs, ev.args.detected)
              IN  /\ r.c.exc = ev.exc
                  /\ r.c.read_bytes = read_bytes
                  /\ r.c.log = log
                  /\ r.slots = ev.slots

\* a query decoded with every filter set and the schema frozen
C8_Witness ==
    /\ ev.kind = "QueryEvent"
    /\ Completed
    /\ ev.args.kwargs.only_tables = "t1"
    /\ ev.args.kwargs.ignored_schemas = "s2"
    /\ ev.args.kwargs.freeze_schema
    /\ ev.env._processed
    /\ ev.env.complete
    /\ ev.slots.query.type = "str"

(***************************************************************************)
(* C9.  Fixed-size events: a GtidEvent that completes has consumed 25      *)
(* bytes, an XidEvent 8, an IntvarEvent 5; and two events of the same      *)
(* kind decoded from equal bytes have equal slots.                         *)
(***************************************************************************)
C9_FixedSizeDeterministic ==
    ev.kind \in FixedKinds /\ Completed =>
        /\ Consumed = CASE ev.kind = "GtidEvent" -> GtidSize
                        [] ev.kind = "XidEvent" -> XidSize
                        [] OTHER -> IntvarSize
        /\ prev.kind = ev.kind /\ prev.raw = Raw => prev.slots = ev.slots

\* two XidEvents decoded one after the other from the same eight bytes,
\* not all zero
C9_Witness ==
    /\ ev.kind = "XidEvent"
    /\ Completed
    /\ prev.kind = "XidEvent"
    /\ prev.raw = Raw
    /\ 1 \in {Raw[i] : i \in 1..Len(Raw)}
    /\ prev.slots = ev.slots

(***************************************************************************)
(* C10.  QueryEvent layout: for a well-formed QueryEvent (status vars      *)
(* length + schema length + 14 <= event_size) whose reads the cursor       *)
(* served, the reads are, in order and back to back from the event's       *)
(* first byte: 4, 4, 1, 2, 2 bytes of post-header, the status vars, the    *)
(* schema, a skip of 1 byte, and the query of event_size - 13 - status     *)
(* vars length - schema length - 1 bytes; event_size bytes are consumed.   *)
(***************************************************************************)
QueryLayout(start, event_size, status_vars_length, schema_length) ==
    LET lens == <<4, 4, 1, 2, 2, status_vars_length, schema_length, 1,
                  event_size - 13 - status_vars_length - schema_length - 1>>
        RECURSIVE Sum(_)
        Sum(k) == IF k = 0 THEN 0 ELSE lens[k] + Sum(k - 1)
    IN  [k \in 1..9 |->
            [op |-> IF k = 8 THEN "advance" ELSE "read",
             at |-> start + Sum(k - 1),
             n |-> lens[k]]]

C10_QueryLayout ==
    /\ ev.kind = "QueryEvent"
    /\ ~CursorFailed
    /\ HasPostHeader
    /\ PacketStatusVarsLength + PacketSchemaLength + 14 <= ev.env.event_size
    => /\ log = QueryLayout(ev.start, ev.env.event_size,
                            PacketStatusVarsLength, PacketSchemaLength)
       /\ Consumed = ev.env.event_size

\* a query with status vars, a schema and a two-byte text, all delivered
C10_Witness ==
    /\ ev.kind = "QueryEvent"
    /\ Completed
    /\ ev.slots.status_vars = Bytes(<<1>>)
    /\ ev.slots.schema = Bytes(<<100>>)
    /\ ev.slots.query = Str(<<233>>)
    /\ Consumed = ev.env.event_size

=============================================================================
